---- MODULE Spec2Model ----
(***************************************************************************)
(* Model of flat-earth (src/src/main.cpp): the LatLon coordinate model     *)
(* (great-circle distance, azimuthal equidistant projection and its        *)
(* inverse) and the render loop of main() that samples every pixel of the  *)
(* canvas against the current sun position.                                *)
(*                                                                         *)
(* Numbers.  The program computes in float/double; the model computes in   *)
(* fixed point, rounding to nearest after every operation:                 *)
(*   - dimensionless values (planar coordinates, sines, cosines) and       *)
(*     radians are integers counting 1/Unit;                               *)
(*   - a radian value held in a float (results of deg2rad and atan2f) is   *)
(*     rounded to a multiple of RadQuantum, the spacing of floats of       *)
(*     magnitude pi/2 (about 1.2e-7);                                      *)
(*   - degrees are integers counting 1/DegUnit of a degree;                *)
(*   - kilometres are integers counting 1/KmUnit of a kilometre;           *)
(*   - a double that asin or sqrt cannot represent is the value NaN, and   *)
(*     every comparison with NaN is false, as in IEEE 754.                 *)
(***************************************************************************)
EXTENDS Integers, Sequences, FiniteSets, TLC

Unit == 100000000
Limb == 10000
RadQuantum == 10
DegUnit == 10000
KmUnit == 100

\* pi, pi/2 and pi/4 in 1/Unit (M_PI of <cmath>)
PiU == 314159265
TwoPiU == 628318531
HalfPiU == 157079633
QuarterPiU == 78539816

Abs(a) == IF a < 0 THEN -a ELSE a
Sign(a) == IF a < 0 THEN -1 ELSE 1
Min(a, b) == IF a < b THEN a ELSE b

\* F applied to the value of e (to the values of e1 and e2): the expression is
\* evaluated once, like an initialised const auto local
With1(e, F(_)) == CHOOSE r \in { F(a) : a \in {e} } : TRUE
With2(e1, e2, F(_, _)) == CHOOSE r \in { F(a, b) : a \in {e1}, b \in {e2} } : TRUE

\* round(n / d) for d > 0, halves away from zero
RoundDiv(n, d) ==
    With2(n, d, LAMBDA a, b : Sign(a) * ((Abs(a) + b \div 2) \div b))

\* exact product of naturals a, b < 4.6 * Unit as <<hi, lo>>,
\* a * b = hi * Unit + lo, 0 <= lo < Unit (schoolbook product on two limbs)
MulEx(m, n) ==
    With2(m, n, LAMBDA a, b :
        LET a1 == a \div Limb
            a0 == a % Limb
            b1 == b \div Limb
            b0 == b % Limb
            cross == a1 * b0 + a0 * b1
            lo == (cross % Limb) * Limb + a0 * b0
        IN  << a1 * b1 + cross \div Limb + lo \div Unit, lo % Unit >>)

\* the product of two values in 1/Unit, rounded to 1/Unit
Mul(m, n) ==
    With2(m, n, LAMBDA a, b :
        With1(MulEx(Abs(a), Abs(b)), LAMBDA p :
            IF (a < 0) = (b < 0)
            THEN p[1] + (IF 2 * p[2] >= Unit THEN 1 ELSE 0)
            ELSE -(p[1] + (IF 2 * p[2] >= Unit THEN 1 ELSE 0))))

\* long division: the quotient a / b of naturals in 1/Unit, 0 < b <= 2 * Unit
RECURSIVE DivDigits(_, _, _, _)
DivDigits(rem, b, q, k) ==
    IF k = 0 THEN q + (IF 2 * rem >= b THEN 1 ELSE 0)
    ELSE DivDigits((rem * 10) % b, b, q * 10 + (rem * 10) \div b, k - 1)

Div(m, n) == With2(m, n, LAMBDA a, b : DivDigits(a % b, b, a \div b, 8))

\* square root of a value n >= 0 in 1/Unit, rounded to nearest (sqrtf, sqrt)
SqrtFits(n, cand) ==
    With1(MulEx(cand, cand), LAMBDA sq : sq[1] < n \/ (sq[1] = n /\ sq[2] = 0))

\* a first estimate of the root of n, 0 < n < 4^14, within a factor sqrt(2)
SqrtGuess(n) ==
    14142 * 2 ^ (CHOOSE k \in 0 .. 13 : n < 4 ^ (k + 1) /\ (k = 0 \/ n >= 4 ^ k))

\* one step of Newton's iteration for the root of n from the estimate e
SqrtStep(n, e) == With1(e, LAMBDA r : (r + Div(n, r)) \div 2)

\* the largest r with r * r <= n, found next to the estimate e
SqrtFloor(n, e) ==
    CHOOSE r \in e - 2 .. e + 2 :
        r >= 0 /\ SqrtFits(n, r) /\ ~SqrtFits(n, r + 1)

Sqrt(m) ==
    With1(m, LAMBDA n :
        IF n = 0 THEN 0
        ELSE With1(SqrtFloor(n, SqrtStep(n, SqrtStep(n, SqrtStep(n,
                       SqrtStep(n, SqrtGuess(n)))))), LAMBDA r :
                 IF MulEx(r, r + 1)[1] < n THEN r + 1 ELSE r))

\* Taylor polynomials on [0, pi/4]
SinT(t) ==
    With1(Mul(t, t), LAMBDA z :
        LET s5 == Unit - RoundDiv(z, 110)
            s4 == Unit - RoundDiv(Mul(z, s5), 72)
            s3 == Unit - RoundDiv(Mul(z, s4), 42)
            s2 == Unit - RoundDiv(Mul(z, s3), 20)
            s1 == Unit - RoundDiv(Mul(z, s2), 6)
        IN  Mul(t, s1))

CosT(t) ==
    With1(Mul(t, t), LAMBDA z :
        LET s5 == Unit - RoundDiv(z, 90)
            s4 == Unit - RoundDiv(Mul(z, s5), 56)
            s3 == Unit - RoundDiv(Mul(z, s4), 30)
            s2 == Unit - RoundDiv(Mul(z, s3), 12)
        IN  Unit - RoundDiv(Mul(z, s2), 2))

\* sine and cosine of an angle in [0, pi/2]
SinQ(t) == IF t <= QuarterPiU THEN SinT(t) ELSE CosT(HalfPiU - t)
CosQ(t) == IF t <= QuarterPiU THEN CosT(t) ELSE SinT(HalfPiU - t)

\* the argument reduced to [-pi, pi)
Reduce(t) == ((t + PiU) % TwoPiU) - PiU

\* sin, sinf: radians in 1/Unit to a value in 1/Unit
Sin(t) ==
    With2(Reduce(t), Abs(Reduce(t)), LAMBDA r, a :
        Sign(r) * SinQ(IF a <= HalfPiU THEN a ELSE Min(PiU - a, HalfPiU)))

\* cos: radians in 1/Unit to a value in 1/Unit
Cos(t) ==
    With1(Abs(Reduce(t)), LAMBDA a :
        IF a <= HalfPiU THEN CosQ(a) ELSE -CosQ(Min(PiU - a, HalfPiU)))

\* atan(k / 4) for k = 0..4, in 1/Unit
AtanTable == << 0, 24497866, 46364761, 64350111, 78539816 >>

\* atan of w, |w| <= 1/4, by its Taylor polynomial
AtanSeries(w) ==
    With1(Mul(w, w), LAMBDA z :
        LET s4 == Unit \div 9
            s3 == Unit \div 7 - Mul(z, s4)
            s2 == Unit \div 5 - Mul(z, s3)
            s1 == Unit \div 3 - Mul(z, s2)
            s0 == Unit - Mul(z, s1)
        IN  Mul(w, s0))

\* atan of t in [0, 1]: atan(c) + atan((t - c) / (1 + t c)), c = k/4 nearest t
AtanT(v) ==
    With2(v, (4 * v + Unit \div 2) \div Unit, LAMBDA t, k :
        With1(Sign(4 * t - k * Unit)
                  * Div(Abs(t - k * (Unit \div 4)),
                        Unit + Mul(t, k * (Unit \div 4))), LAMBDA w :
            AtanTable[k + 1] + AtanSeries(w)))

\* the angle in [0, pi/2] of the vector with components a, b >= 0, not both 0
AtanPos(a, b) ==
    IF a <= b THEN AtanT(Div(a, b)) ELSE HalfPiU - AtanT(Div(b, a))

\* a radian value stored in a float
ToFloatRad(t) == RoundDiv(t, RadQuantum) * RadQuantum

\* atan2f(b, a).  At the origin and on the negative axis (b = 0, a <= 0) the
\* C result depends on the signs of the zeros; both call sites reach these
\* points with b = -(+0.0) = -0.0, where atan2f yields -0.0 and -pi.
atan2f(m, n) ==
    With2(m, n, LAMBDA b, a :
        IF b = 0 THEN (IF a >= 0 THEN 0 ELSE -ToFloatRad(PiU))
        ELSE With1(IF a = 0 THEN HalfPiU ELSE AtanPos(Abs(b), Abs(a)),
                   LAMBDA phi :
                 Sign(b) * ToFloatRad(IF a >= 0 THEN phi ELSE PiU - phi)))

\* asin of s in [0, Unit]
asin(m) ==
    With1(m, LAMBDA s :
        IF s = 0 THEN 0
        ELSE With1(Sqrt(Unit - Mul(s, s)), LAMBDA c :
                 IF c = 0 THEN HalfPiU ELSE AtanPos(s, c)))


(***************************************************************************)
(* struct LatLon                                                           *)
(***************************************************************************)

\* LatLon{lat, lon}, degrees in 1/DegUnit
LatLon(lat, lon) == [lat |-> lat, lon |-> lon]

\* deg * M_PI / 180, returned as float
deg2rad(d) ==
    With1(d, LAMBDA deg : ToFloatRad(deg * 174 + Mul(deg, 53292520)))

\* rad * 180 / M_PI, returned as float
rad2deg(rad) == RoundDiv(Mul(rad, 57295780), 100)

earth_radius_km == 6371

NaN == [nan |-> TRUE, km |-> 0]
Km(d) == [nan |-> FALSE, km |-> d]

\* IEEE comparisons of a distance with a number of 1/KmUnit km
Less(d, t) == ~d.nan /\ d.km < t
GreaterEq(d, t) == ~d.nan /\ d.km >= t

\* exact product of the two-limb naturals p and q (<<hi, lo>> in base Unit)
\* as four limbs, most significant first
MulEx4(p0, q0) ==
    With2(p0, q0, LAMBDA p, q :
        With2(<< MulEx(p[1], q[1]), MulEx(p[1], q[2]) >>,
              << MulEx(p[2], q[1]), MulEx(p[2], q[2]) >>, LAMBDA h, l :
            LET s1 == h[2][2] + l[1][2] + l[2][1]
                s2 == h[1][2] + h[2][1] + l[1][1] + s1 \div Unit
            IN  << h[1][1] + s2 \div Unit, s2 % Unit, s1 % Unit, l[2][2] >>))

\* the haversine argument u*u + cos(lat1r)*cos(lat2r)*v*v of line 40.  u*u is
\* a float product; the rest is evaluated in double, whose rounding is far
\* below 1/Unit: the model keeps the product of the cosines and v*v exactly
\* (four limbs) and reports whether the sum left [0, 1], where sqrt or asin
\* yield NaN.
HaversineArg(u0, c10, c20, v0) ==
    With2(<< u0, v0 >>, << c10, c20 >>, LAMBDA uv, c :
        With2(Mul(uv[1], uv[1]),
              MulEx4(MulEx(Abs(c[1]), Abs(c[2])),
                     MulEx(Abs(uv[2]), Abs(uv[2]))), LAMBDA uu, pq :
            LET neg == (c[1] < 0) # (c[2] < 0)
                t == pq[1] + (IF 2 * pq[2] >= Unit THEN 1 ELSE 0)
                room == IF neg THEN uu ELSE Unit - uu
                low == pq[2] # 0 \/ pq[3] # 0 \/ pq[4] # 0
            IN  [outside |-> pq[1] > room \/ (pq[1] = room /\ low),
                 val |-> IF neg THEN uu - t ELSE uu + t]))

\* LatLon::spherical_distance, in 1/KmUnit km
spherical_distance(self, other) ==
    With2(<< deg2rad(self.lat), deg2rad(self.lon) >>,
          << deg2rad(other.lat), deg2rad(other.lon) >>, LAMBDA p1, p2 :
        LET lat1r == p1[1]
            lon1r == p1[2]
            lat2r == p2[1]
            lon2r == p2[2]
            u == Sin((lat2r - lat1r) \div 2)
            v == Sin((lon2r - lon1r) \div 2)
        IN  With1(HaversineArg(u, Cos(lat1r), Cos(lat2r), v), LAMBDA h :
                IF h.outside THEN NaN
                ELSE Km(Mul(asin(Sqrt(h.val)),
                            2 * earth_radius_km * KmUnit))))

\* the projection with the radius taken over 360 degrees instead of 180
to_azimuthal_halved(self) ==
    With2(RoundDiv(-(self.lat - 90 * DegUnit) * 250, 9), deg2rad(self.lon),
          LAMBDA r, th : << Mul(r, -Sin(th)), Mul(r, Cos(th)) >>)

\* LatLon::to_azimuthal_equidistant
to_azimuthal_equidistant(self) ==
    With2(RoundDiv(-(self.lat - 90 * DegUnit) * 500, 9), deg2rad(self.lon),
          LAMBDA r, th : << Mul(r, -Sin(th)), Mul(r, Cos(th)) >>)

\* the inverse projection with atan2f(coords.x, coords.y): the sign is lost
from_azimuthal_mirrored(coords) ==
    With1(coords, LAMBDA c :
        LET r == Sqrt(Mul(c[1], c[1]) + Mul(c[2], c[2]))
            th == atan2f(c[1], c[2])
            lat == Mul(-r, 180 * DegUnit) + 90 * DegUnit
            lon == rad2deg(th)
        IN  LatLon(lat, lon))

\* LatLon::from_azimuthal_equidistant
from_azimuthal_equidistant(coords) ==
    With1(coords, LAMBDA c :
        LET r == Sqrt(Mul(c[1], c[1]) + Mul(c[2], c[2]))
            th == atan2f(-c[1], c[2])
            lat == Mul(-r, 180 * DegUnit) + 90 * DegUnit
            lon == rad2deg(th)
        IN  LatLon(lat, lon))

(***************************************************************************)
(* main(): the window, the sun position and the render loop                *)
(***************************************************************************)

\* Half stands for the 400 px between the canvas centre and its edge (the
\* canvas is 2 * Half pixels wide, 800 in the program); MaxFrames caps the
\* number of iterations of the render loop.
Half == 4
MaxFrames == 2

Width == 2 * Half

\* auto point = LatLon{47.7511, 120.7401}
InitLat == 477511
InitLon == 1207401

\* 40075. / 4. km in 1/KmUnit
Circumference == 40075
QuarterCircumference == (Circumference * KmUnit) \div 4

\* positions sf::Mouse::getPosition can report: the canvas corner, the left end
\* and the centre of the middle row, points inside the disk, and a point to
\* the right of the window
Pointers ==
    { <<0, 0>>, <<0, Half>>, <<Half, Half>>, <<Half + Half \div 2, Half>>,
      <<Half + 1, Half - 1>>, <<Width + 1, Half>> }

Pixels == (0 .. Width - 1) \X (0 .. Width - 1)

VARIABLES
    pc,          \* position in main()
    loaded,      \* result of texture.loadFromFile
    reported,    \* "Can't load map.jpg" was written to std::cerr
    exitCode,    \* value returned by main(), -1 while it runs
    isOpen,      \* window.isOpen()
    frames,      \* completed calls of window.display()
    space,       \* sf::Keyboard::isKeyPressed(Space) as read in this frame
    pixel,       \* sf::Mouse::getPosition(window) as read last
    point,       \* the sun position
    x, y,        \* loop variables of the illumination loops
    tile_coords, \* LatLon of the pixel sampled last
    dist,        \* distance computed last by the test of line 132
    shaded,      \* positions of the tiles drawn since window.clear
    marker,      \* marker.getPosition(), in 1/Unit px
    \* the coordinate model applied to a single point
    gp,          \* the point
    gop,         \* the member function applied last
    gxy,         \* its projection
    gout,        \* the inverse projection of gxy
    gq,          \* the other point of a distance
    gdist,       \* the distance between gp and gq
    gskip,       \* the test of line 132 for sun gp and tile gq
    \* the loop body run in the loop's order and by two workers
    wsun,        \* the sun position
    seqnext,     \* iterations done by the loop
    seqshaded,   \* tiles drawn by the loop
    wnext,       \* iterations done by each worker
    wshaded      \* tiles drawn by the workers

frameVars ==
    << pc, loaded, reported, exitCode, isOpen, frames, space, pixel, point,
       x, y, tile_coords, dist, shaded, marker >>

geoVars == << gp, gop, gxy, gout, gq, gdist, gskip >>

workerVars == << wsun, seqnext, seqshaded, wnext, wshaded >>

vars == << frameVars, geoVars, workerVars >>

\* (coord - sf::Vector2f(400, 400)) / 400.f for an integer position
Normalize(p) ==
    << RoundDiv((p[1] - Half) * Unit, Half),
       RoundDiv((p[2] - Half) * Unit, Half) >>

\* LatLon of the 1px tile at p, and of the pointer at p
PixelLatLon(p) == from_azimuthal_equidistant(Normalize(p))

\* the first operand of the test with <= : the rim counts as outside
OutsideMapLax(g) == g.lat <= -90 * DegUnit

\* the test of line 132, with || evaluated left to right
OutsideMap(g) == g.lat < -90 * DegUnit
Illuminated(sun, g) == Less(spherical_distance(sun, g), QuarterCircumference)
Skipped(sun, g) == OutsideMap(g) \/ Illuminated(sun, g)

\* sf::Vector2f(400, 400) + 400.f * point.to_azimuthal_equidistant()
MarkerPosition(sun) ==
    With1(to_azimuthal_equidistant(sun), LAMBDA v :
        << Half * Unit + Half * v[1], Half * Unit + Half * v[2] >>)

\* the inner loop stepping by two
NextXYStride(cx, cy) ==
    IF cy + 2 < Width THEN << cx, cy + 2 >> ELSE << cx + 1, 0 >>

\* the loop variables after one more iteration of the inner loop
NextXY(cx, cy) == IF cy + 1 < Width THEN << cx, cy + 1 >> ELSE << cx + 1, 0 >>

\* a loop body that reads the tiles drawn so far: no tile is drawn right
\* below a drawn tile
SampleBodyNeighbour(sh, sun, p) ==
    IF Skipped(sun, PixelLatLon(p)) \/ << p[1], p[2] - 1 >> \in sh
    THEN sh ELSE sh \cup {p}

\* the tiles drawn after the body of the loops (lines 129-139) ran for pixel p
SampleBody(sh, sun, p) ==
    IF Skipped(sun, PixelLatLon(p)) THEN sh ELSE sh \cup {p}

FrameInit ==
    /\ pc = "load"
    /\ loaded = FALSE
    /\ reported = FALSE
    /\ exitCode = -1
    /\ isOpen = TRUE
    /\ frames = 0
    /\ space = FALSE
    /\ pixel = << Half, Half >>
    /\ point = LatLon(InitLat, InitLon)
    /\ x = 0
    /\ y = 0
    /\ tile_coords = LatLon(0, 0)
    /\ dist = Km(0)
    /\ shaded = {}
    /\ marker = << 0, 0 >>

\* lines 69-70, 75-96: the texture loads and the scene is set up
LoadOk ==
    /\ pc = "load"
    /\ loaded' = TRUE
    /\ pc' = "loop"
    /\ UNCHANGED << reported, exitCode, isOpen, frames, space, pixel, point,
                    x, y, tile_coords, dist, shaded, marker >>
    /\ UNCHANGED << geoVars, workerVars >>

\* the failure is reported and main carries on to the render loop
LoadFailContinue ==
    /\ pc = "load"
    /\ reported' = TRUE
    /\ pc' = "loop"
    /\ UNCHANGED << loaded, exitCode, isOpen, frames, space, pixel, point, x,
                    y, tile_coords, dist, shaded, marker >>
    /\ UNCHANGED << geoVars, workerVars >>

\* lines 70-74: the texture does not load
LoadFail ==
    /\ pc = "load"
    /\ reported' = TRUE
    /\ exitCode' = 1
    /\ pc' = "exit"
    /\ UNCHANGED << loaded, isOpen, frames, space, pixel, point, x, y,
                    tile_coords, dist, shaded, marker >>
    /\ UNCHANGED << geoVars, workerVars >>

\* line 98, window open: the next iteration starts
LoopEnter ==
    /\ pc = "loop"
    /\ isOpen
    /\ frames < MaxFrames
    /\ pc' = "poll"
    /\ UNCHANGED << loaded, reported, exitCode, isOpen, frames, space, pixel,
                    point, x, y, tile_coords, dist, shaded, marker >>
    /\ UNCHANGED << geoVars, workerVars >>

\* lines 98, 150: the window is closed, main returns 0
LoopExit ==
    /\ pc = "loop"
    /\ ~isOpen
    /\ exitCode' = 0
    /\ pc' = "exit"
    /\ UNCHANGED << loaded, reported, isOpen, frames, space, pixel, point,
                    x, y, tile_coords, dist, shaded, marker >>
    /\ UNCHANGED << geoVars, workerVars >>

\* lines 101-112: the pending events are polled (a Closed event closes the
\* window), the window is cleared and the world map drawn
PollEvents ==
    /\ pc = "poll"
    /\ \E closed \in BOOLEAN : isOpen' = (isOpen /\ ~closed)
    /\ shaded' = {}
    /\ pc' = "update"
    /\ UNCHANGED << loaded, reported, exitCode, frames, space, pixel, point,
                    x, y, tile_coords, dist, marker >>
    /\ UNCHANGED << geoVars, workerVars >>

\* the sun moves to the pointer with its coordinates exchanged
UpdateSunSwapped ==
    /\ pc = "update"
    /\ \E p \in Pointers :
          /\ pixel' = p
          /\ point' = PixelLatLon(<< p[2], p[1] >>)
    /\ space' = TRUE
    /\ x' = 0
    /\ y' = 0
    /\ pc' = "sample"
    /\ UNCHANGED << loaded, reported, exitCode, isOpen, frames, tile_coords,
                    dist, shaded, marker >>
    /\ UNCHANGED << geoVars, workerVars >>

\* lines 115-121 with Space pressed: the sun moves to the pointer
UpdateSun ==
    /\ pc = "update"
    /\ \E p \in Pointers :
          /\ pixel' = p
          /\ point' = PixelLatLon(p)
    /\ space' = TRUE
    /\ x' = 0
    /\ y' = 0
    /\ pc' = "sample"
    /\ UNCHANGED << loaded, reported, exitCode, isOpen, frames, tile_coords,
                    dist, shaded, marker >>
    /\ UNCHANGED << geoVars, workerVars >>

\* line 115 with Space not pressed: the sun stays
KeepSun ==
    /\ pc = "update"
    /\ space' = FALSE
    /\ x' = 0
    /\ y' = 0
    /\ pc' = "sample"
    /\ UNCHANGED << loaded, reported, exitCode, isOpen, frames, pixel, point,
                    tile_coords, dist, shaded, marker >>
    /\ UNCHANGED << geoVars, workerVars >>

\* lines 124-140: one iteration of the inner loop
Sample ==
    /\ pc = "sample"
    /\ x < Width
    /\ tile_coords' = PixelLatLon(<< x, y >>)
    /\ dist' = IF OutsideMap(tile_coords') THEN dist
               ELSE spherical_distance(point, tile_coords')
    /\ shaded' = IF OutsideMap(tile_coords')
                      \/ Less(dist', QuarterCircumference)
                  THEN shaded
                  ELSE shaded \cup { << x, y >> }
    /\ x' = NextXY(x, y)[1]
    /\ y' = NextXY(x, y)[2]
    /\ UNCHANGED << pc, loaded, reported, exitCode, isOpen, frames, space,
                    pixel, point, marker >>
    /\ UNCHANGED << geoVars, workerVars >>

\* line 124: x reached 800, the loops end
SampleDone ==
    /\ pc = "sample"
    /\ x >= Width
    /\ pc' = "marker"
    /\ UNCHANGED << loaded, reported, exitCode, isOpen, frames, space, pixel,
                    point, x, y, tile_coords, dist, shaded, marker >>
    /\ UNCHANGED << geoVars, workerVars >>

\* lines 144-145
PlaceMarker ==
    /\ pc = "marker"
    /\ marker' = MarkerPosition(point)
    /\ pc' = "display"
    /\ UNCHANGED << loaded, reported, exitCode, isOpen, frames, space, pixel,
                    point, x, y, tile_coords, dist, shaded >>
    /\ UNCHANGED << geoVars, workerVars >>

\* line 147
Display ==
    /\ pc = "display"
    /\ frames' = frames + 1
    /\ pc' = "loop"
    /\ UNCHANGED << loaded, reported, exitCode, isOpen, space, pixel, point,
                    x, y, tile_coords, dist, shaded, marker >>
    /\ UNCHANGED << geoVars, workerVars >>

(***************************************************************************)
(* The coordinate model applied to one point: projection and inverse       *)
(* projection, distance to itself and to its antipode                      *)
(***************************************************************************)

\* the points are taken from a grid of LatSteps + 1 latitudes from pole to
\* pole and LonSteps longitudes in (-180, 180], and the initial sun position
LatSteps == 6
LonSteps == 8

GeoLats ==
    { -90 * DegUnit + (180 * DegUnit * i) \div LatSteps : i \in 0 .. LatSteps }
GeoLons ==
    { -180 * DegUnit + (360 * DegUnit * i) \div LonSteps : i \in 1 .. LonSteps }
GeoPoints ==
    { LatLon(lat, lon) : lat \in GeoLats, lon \in GeoLons }
        \cup { LatLon(InitLat, InitLon) }

\* the point diametrically opposite p, its longitude in (-180, 180]
Antipode(p) ==
    LatLon(-p.lat, IF p.lon > 0 THEN p.lon - 180 * DegUnit
                   ELSE p.lon + 180 * DegUnit)

GeoIdle ==
    /\ gp = LatLon(InitLat, InitLon)
    /\ gop = "idle"
    /\ gxy = << 0, 0 >>
    /\ gout = LatLon(InitLat, InitLon)
    /\ gq = LatLon(InitLat, InitLon)
    /\ gdist = Km(0)
    /\ gskip = FALSE

GeoStart ==
    /\ gp \in GeoPoints
    /\ gop = "idle"
    /\ gxy = << 0, 0 >>
    /\ gout = gp
    /\ gq = gp
    /\ gdist = Km(0)
    /\ gskip = FALSE

\* gp.to_azimuthal_equidistant()
GeoProject ==
    /\ gop = "idle"
    /\ gxy' = to_azimuthal_equidistant(gp)
    /\ gop' = "projected"
    /\ UNCHANGED << gp, gout, gq, gdist, gskip >>
    /\ UNCHANGED << frameVars, workerVars >>

\* LatLon::from_azimuthal_equidistant of the projection
GeoUnproject ==
    /\ gop = "projected"
    /\ gout' = from_azimuthal_equidistant(gxy)
    /\ gop' = "unprojected"
    /\ UNCHANGED << gp, gxy, gq, gdist, gskip >>
    /\ UNCHANGED << frameVars, workerVars >>

\* the test of line 132 for a tile at the sun position itself
GeoSelf ==
    /\ gop = "idle"
    /\ gq' = gp
    /\ gdist' = spherical_distance(gp, gq')
    /\ gskip' = Skipped(gp, gq')
    /\ gop' = "self"
    /\ UNCHANGED << gp, gxy, gout >>
    /\ UNCHANGED << frameVars, workerVars >>

\* the test of line 132 for a tile at the antipode of the sun position
GeoAntipode ==
    /\ gop = "idle"
    /\ gq' = Antipode(gp)
    /\ gdist' = spherical_distance(gp, gq')
    /\ gskip' = Skipped(gp, gq')
    /\ gop' = "antipode"
    /\ UNCHANGED << gp, gxy, gout >>
    /\ UNCHANGED << frameVars, workerVars >>

(***************************************************************************)
(* The loop body of lines 129-139 run in the order of the loops, and then  *)
(* by two workers that share the pixels and interleave freely              *)
(***************************************************************************)

Workers == { 1, 2 }

\* the pixel of the k-th iteration of the loops (x outer, y inner)
PixelAt(k) == << k \div Width, k % Width >>

\* the k-th pixel of worker w: the workers take the iterations in turn
WorkerPixel(w, k) == PixelAt(k * Cardinality(Workers) + w - 1)

\* the initial sun position, the south pole (pointer at the left end of the
\* middle row) and the sun of a pointer at the canvas corner
WorkerSuns ==
    { LatLon(InitLat, InitLon), PixelLatLon(<< 0, Half >>),
      PixelLatLon(<< 0, 0 >>) }

WorkersIdle ==
    /\ wsun = LatLon(InitLat, InitLon)
    /\ seqnext = 0
    /\ seqshaded = {}
    /\ wnext = [w \in Workers |-> 0]
    /\ wshaded = {}

WorkersStart ==
    /\ wsun \in WorkerSuns
    /\ seqnext = 0
    /\ seqshaded = {}
    /\ wnext = [w \in Workers |-> 0]
    /\ wshaded = {}

\* one iteration of the loops of lines 124-141, in their order
SeqStep ==
    /\ seqnext < Width * Width
    /\ seqshaded' = SampleBody(seqshaded, wsun, PixelAt(seqnext))
    /\ seqnext' = seqnext + 1
    /\ UNCHANGED << wsun, wnext, wshaded >>
    /\ UNCHANGED << frameVars, geoVars >>

\* worker w runs the loop body for its next pixel
WorkerStep(w) ==
    /\ seqnext = Width * Width
    /\ wnext[w] * Cardinality(Workers) + w - 1 < Width * Width
    /\ wshaded' = SampleBody(wshaded, wsun, WorkerPixel(w, wnext[w]))
    /\ wnext' = [wnext EXCEPT ![w] = @ + 1]
    /\ UNCHANGED << wsun, seqnext, seqshaded >>
    /\ UNCHANGED << frameVars, geoVars >>

WorkersDone ==
    \A w \in Workers : wnext[w] * Cardinality(Workers) + w - 1 >= Width * Width

(***************************************************************************)
(* Specifications                                                          *)
(***************************************************************************)

Init == FrameInit /\ GeoIdle /\ WorkersIdle

Next ==
    \/ LoadOk
    \/ LoadFail
    \/ LoopEnter
    \/ LoopExit
    \/ PollEvents
    \/ UpdateSun
    \/ KeepSun
    \/ Sample
    \/ SampleDone
    \/ PlaceMarker
    \/ Display

\* main()
Spec == Init /\ [][Next]_vars

\* main(), whose statements do not block: a step that can be taken is taken
FairSpec == Spec /\ WF_vars(Next)

GeoInit == FrameInit /\ GeoStart /\ WorkersIdle

GeoNext ==
    \/ GeoProject
    \/ GeoUnproject
    \/ GeoSelf
    \/ GeoAntipode

\* the member functions of LatLon on the points of the grid
GeoSpec == GeoInit /\ [][GeoNext]_vars

WorkerInit == FrameInit /\ GeoIdle /\ WorkersStart

WorkerNext ==
    \/ SeqStep
    \/ \E w \in Workers : WorkerStep(w)

\* the loop body in loop order and in every interleaving of two workers
WorkerSpec == WorkerInit /\ [][WorkerNext]_vars

(***************************************************************************)
(* Properties                                                              *)
(***************************************************************************)

\* 1e-3 degrees, and 1e-6 of the unit radius
Tol == DegUnit \div 1000
NormTol == Unit \div 1000000

Near(a, b) == Abs(a - b) <= Tol

\* the square of the distance of pixel p from the canvas centre, in pixels
PixelDistSq(p) ==
    (p[1] - Half) * (p[1] - Half) + (p[2] - Half) * (p[2] - Half)

\* sqrt(x^2 + y^2) of the normalised position of pixel p, from the integers
PixelRadius(p) == Sqrt(PixelDistSq(p) * (Unit \div (Half * Half)))

\* the length of a planar vector
PlanarNorm(v) == Sqrt(Mul(v[1], v[1]) + Mul(v[2], v[2]))

\* the value x * Width + y counts the iterations of the loops done so far
LoopIndex(cx, cy) == cx * Width + cy

\* the order of the statements of main()
FrameOrder ==
    { << "load", "loop" >>, << "load", "exit" >>, << "loop", "poll" >>,
      << "loop", "exit" >>, << "poll", "update" >>, << "update", "sample" >>,
      << "sample", "marker" >>, << "marker", "display" >>,
      << "display", "loop" >> }

\* C1: in every reachable frame the sun position held by the render loop is
\* never a point with lat < -90: a result of from_azimuthal_equidistant that
\* lies outside the map is ignored, also when Space is pressed while the
\* pointer is outside the unit disk.
C1_SunOnMap == point.lat >= -90 * DegUnit

\* C2: the sun position starts at {47.7511, 120.7401}; in the update step of
\* a frame it becomes from_azimuthal_equidistant((pointer - centre) / Half)
\* for the pointer read in that frame when Space is pressed, and stays as it
\* is when Space is not pressed; no other step changes it.
C2_SunUpdatePolicy ==
    [][ /\ pc = "load" => point = LatLon(InitLat, InitLon)
        /\ (pc = "update" /\ pc' = "sample" /\ space')
              => point' = from_azimuthal_equidistant(Normalize(pixel'))
        /\ (pc = "update" /\ pc' = "sample" /\ ~space') => point' = point
        /\ pc # "update" => point' = point ]_vars

\* C2 happens: in the second frame Space is pressed with the pointer inside
\* the disk and the sun has moved there.
C2_SunMoved ==
    /\ pc = "sample"
    /\ frames = 1
    /\ space
    /\ pixel = << Half + 1, Half - 1 >>
    /\ point # LatLon(InitLat, InitLon)
    /\ point = PixelLatLon(pixel)

\* C3: a sampled pixel (x, y), with g its inverse projection and S the sun
\* position of the frame, is drawn shaded if and only if g.lat >= -90 and
\* the distance from S to g is at least 40075 / 4 km.
C3_ShadedIffFar ==
    [][ (pc = "sample" /\ x < Width) =>
            ((<< x, y >> \in shaded') <=>
                (/\ ~OutsideMap(PixelLatLon(<< x, y >>))
                 /\ GreaterEq(spherical_distance(point, PixelLatLon(<< x, y >>)),
                              QuarterCircumference))) ]_vars

\* C4: when the texture fails to load the failure is reported and main
\* returns 1 without having run any iteration of the render loop, and
\* nothing follows (no retry); the render loop runs only after a load that
\* succeeded.
C4_StartupFailureFatal ==
    /\ reported =>
          /\ pc = "exit"
          /\ exitCode = 1
          /\ ~loaded
          /\ frames = 0
          /\ x = 0 /\ y = 0 /\ shaded = {}
          /\ tile_coords = LatLon(0, 0)
          /\ marker = << 0, 0 >>
    /\ pc \in { "loop", "poll", "update", "sample", "marker", "display" }
          => (loaded /\ ~reported)
    /\ pc = "exit" => ~ENABLED Next

\* C4 happens: the load failed and main has returned 1.
C4_LoadFailed == reported /\ pc = "exit" /\ exitCode = 1

\* C5 as stated: the projection followed by the inverse projection gives back
\* lat and lon within 1e-3 degrees for every point with lat in [-90, 90] and
\* lon in (-180, 180], the north pole and lon = 180 included.
C5_RoundTrip ==
    gop = "unprojected" => (Near(gout.lat, gp.lat) /\ Near(gout.lon, gp.lon))

\* C5 amended: the round trip gives back lat within 1e-3 degrees for every
\* point with lat in [-90, 90] and lon in (-180, 180]; it gives back lon
\* within 1e-3 degrees when lat < 90 and lon < 180, and it gives -180 for
\* lon = 180 when lat < 90.  At the north pole lon is not given back.
C5_RoundTripOffPole ==
    gop = "unprojected" =>
        /\ Near(gout.lat, gp.lat)
        /\ (gp.lat < 90 * DegUnit /\ gp.lon < 180 * DegUnit)
              => Near(gout.lon, gp.lon)
        /\ (gp.lat < 90 * DegUnit /\ gp.lon = 180 * DegUnit)
              => Near(gout.lon, -180 * DegUnit)

\* C5 happens: a point of the southern hemisphere away from the poles went
\* through both projections.
C5_WentRound ==
    /\ gop = "unprojected"
    /\ gp.lat < 0
    /\ gp.lat > -90 * DegUnit
    /\ gp.lon = 135 * DegUnit
    /\ gxy # << 0, 0 >>

\* C6: the inverse projection of a sampled pixel has lat = 90 - 180 * r with
\* r = sqrt(x^2 + y^2) of its normalised position, and the sampler's test
\* lat < -90 is true exactly for the pixels strictly outside the unit disk.
C6_OutsideIffBeyondDisk ==
    [][ (pc = "sample" /\ x < Width) =>
            /\ Abs(tile_coords'.lat
                     - (90 * DegUnit
                          - Mul(PixelRadius(<< x, y >>), 180 * DegUnit))) <= 1
            /\ OutsideMap(tile_coords')
                  <=> (PixelDistSq(<< x, y >>) > Half * Half) ]_vars

\* C6 happens: the pixel at the left end of the middle row, on the rim of the
\* disk, was sampled and its lat is -90.
C6_RimSampled ==
    /\ pc = "sample"
    /\ x = 0
    /\ y = Half + 1
    /\ tile_coords.lat = -90 * DegUnit

C8_SelfLitAntipodeDark ==
    /\ gop = "self" => (gskip /\ gdist = Km(0))
    /\ gop = "antipode" =>
          (~gskip /\ GreaterEq(gdist, QuarterCircumference))

C10_FrameOrder ==
    /\ [][ /\ pc' # pc => << pc, pc' >> \in FrameOrder
           /\ pc \in { "sample", "marker", "display" } => point' = point
           /\ (pc = "update" /\ pc' = "sample") => LoopIndex(x', y') = 0
           /\ (pc = "sample" /\ pc' = "sample") =>
                 /\ LoopIndex(x', y') = LoopIndex(x, y) + 1
                 /\ << x, y >> \in Pixels
                 /\ tile_coords' = PixelLatLon(<< x, y >>)
           /\ (pc = "sample" /\ pc' = "marker") =>
                 LoopIndex(x, y) = Width * Width ]_vars
    /\ [](pc = "display" =>
             /\ shaded = { p \in Pixels : ~Skipped(point, PixelLatLon(p)) }
             /\ marker = MarkerPosition(point))
    /\ (pc = "update") ~> (pc = "display")

\* C10 happens: the second frame, in which the sun was moved, is at its
\* display with tiles drawn.
C10_SecondFrameDisplayed ==
    /\ pc = "display"
    /\ frames = 1
    /\ space
    /\ shaded # {}

====
